---- MODULE Spec2Model ----
(***************************************************************************)
(* Request-admission core of the blog backend: the per-client rate limiter *)
(* built by RateLimiterWithConfig (internal/infrastructure/http/middleware *)
(* /rate_limit.go), its registry of limiter entries, the background sweep  *)
(* cleanupExpiredLimiters, and the 429 response built on denial.           *)
(*                                                                         *)
(* Time is counted in ticks of 1/TicksPerSecond second.  Tokens are        *)
(* counted in units of 1/TokenScale token, so that the real-valued bucket  *)
(* of golang.org/x/time/rate is exact on every value the model produces.   *)
(* A rate is given in token units per tick.                                *)
(***************************************************************************)
EXTENDS Integers, Sequences, FiniteSets, Bags, TLC

\* ---------------------------------------------------------------- bounds
NumProcs == 2
MaxRequests == 2
MaxKeyRequests == 3
MaxBurst == 2
MaxAdvances == 2
TicksPerSecond == 2
MaxTokens == 2
MaxPosts == 2

\* ------------------------------------------------------ program constants
SecondsPerHour == 3600
Hour == SecondsPerHour * TicksPerSecond
HoursPerDay == 24
Day == HoursPerDay * Hour
StatusTooManyRequests == 429
StatusOK == 200

TokenScale == 2 * Hour
OnePerSecond == TokenScale \div TicksPerSecond

Limiters == {"default", "auth"}
IPs == {"A", "B"}
NoEntry == 0

\* RateLimiterConfig: BurstSize >= 1, RequestsPerSecond > 0 (units per tick).
\* The slowest rate refills less than one token in an hour.
Rates == {1, OnePerSecond, 2 * OnePerSecond}
Configs == [BurstSize : 1..MaxBurst, RequestsPerSecond : Rates]
\* The auth policy is the strict one: smallest burst, slowest rate.
AuthConfigs == {c \in Configs : c.BurstSize = 1 /\ c.RequestsPerSecond = 1}
\* A default policy with a faster rate than the auth policy.
DefaultConfigs == {c \in Configs : c.BurstSize = 1 /\ c.RequestsPerSecond = 2 * OnePerSecond}

VARIABLES
    now,        \* the wall clock, in ticks
    config,     \* config[l]: the RateLimiterConfig limiter l was built with
    limiterMap, \* limiterMap[g][k]: which entry of entries[g][k] is registered
    entries,    \* entries[g][k]: the rateLimiterEntry objects ever allocated
                \* for key k of registry g, oldest first (the heap)
    inflight,   \* bag of requests between mu.Unlock() and Allow()
    nreq,       \* number of requests started so far
    hist,       \* hist[g][k][v]: history of entry v of key k: its creation,
                \* the decisions taken on it and the responses written
    issued,     \* the token strings in existence, each with where it came from
    lastOp,     \* the last call of the token service, of an application
                \* service or of RequireAuth, with its inputs and everything
                \* it returned
    posts       \* the posts table: row i is <<p>> for the post of ID i, or
                \* <<>> once it is deleted

vars == <<now, config, limiterMap, entries, inflight, nreq, hist, issued, lastOp, posts>>

Min(a, b) == IF a < b THEN a ELSE b

\* ------------------------------------------------ golang.org/x/time/rate
\* advance without the cap at the burst.
advanceUncapped(lim, t) ==
    LET last == IF t < lim.last THEN t ELSE lim.last
    IN  lim.tokens + (t - last) * lim.limit

\* Limiter.advance: tokens available at time t, capped at the burst.
advance(lim, t) ==
    LET last == IF t < lim.last THEN t ELSE lim.last
        tokens == lim.tokens + (t - last) * lim.limit
    IN  IF tokens > lim.burst * TokenScale THEN lim.burst * TokenScale ELSE tokens

\* Limiter.Allow = reserveN(now, 1, 0): consume one token if one is there;
\* a refusal leaves the limiter as it was.
LimiterAllow(lim, t) ==
    LET tokens == advance(lim, t) - TokenScale
        ok == 1 <= lim.burst /\ tokens >= 0
    IN  [ok |-> ok,
         lim |-> IF ok THEN [lim EXCEPT !.last = t, !.tokens = tokens] ELSE lim]

\* rate.NewLimiter(r, b): a full bucket.
NewLimiter(r, b, t) == [limit |-> r, burst |-> b, tokens |-> b * TokenScale, last |-> t]

\* ------------------------------------------------------- rate_limit.go
\* A key generator that ignores the client address.
KeyGeneratorFixed(l, ip) == "A"

\* KeyGenerator of the default and auth configurations: c.RealIP().
KeyGenerator(l, ip) == ip

\* One package-level registry shared by every limiter.
RegistryShared(l) == "default"

\* limiterMap := make(map[string]*rateLimiterEntry): one per call of
\* RateLimiterWithConfig, i.e. one registry per limiter.
RegistryOf(l) == l

\* New entries one token short of the configured burst.
NewEntryShort(cfg, t) ==
    [limiter |-> NewLimiter(cfg.RequestsPerSecond, cfg.BurstSize - 1, t), lastSeen |-> t]

\* New entries whose limiter is given the burst size as its rate.
NewEntrySwapped(cfg, t) ==
    [limiter |-> NewLimiter(cfg.BurstSize * OnePerSecond, cfg.BurstSize, t), lastSeen |-> t]

\* &rateLimiterEntry{limiter: rate.NewLimiter(rate.Limit(RequestsPerSecond), BurstSize), lastSeen: time.Now()}
NewEntry(cfg, t) ==
    [limiter |-> NewLimiter(cfg.RequestsPerSecond, cfg.BurstSize, t), lastSeen |-> t]

\* A lookup that never reuses the registered entry.
AlwaysFresh(g, k) == TRUE

\* A lookup that creates an entry only for a key the registry lacks.
NeedsFreshMissingOnly(g, k) == limiterMap[g][k] = NoEntry

\* !exists || time.Since(entry.lastSeen) > time.Hour
NeedsFresh(g, k) ==
    \/ limiterMap[g][k] = NoEntry
    \/ now - entries[g][k][limiterMap[g][k]].lastSeen > Hour

\* The cutoff comparison the wrong way round.
ExpiredReversed(entry, t) == entry.lastSeen > t - Hour

\* A cutoff a day back instead of an hour.
ExpiredDay(entry, t) == entry.lastSeen < t - Day

\* A cutoff that also takes the entry seen exactly an hour ago.
ExpiredInclusive(entry, t) == entry.lastSeen <= t - Hour

\* entry.lastSeen.Before(cutoff), cutoff = time.Now().Add(-time.Hour)
Expired(entry, t) == entry.lastSeen < t - Hour

\* errors.ErrTooManyRequests and errors.HandleError on an *APIError
ErrTooManyRequests ==
    [Code |-> "rate_limit_exceeded", StatusCode |-> StatusTooManyRequests]
HandleError(apiErr) == [status |-> apiErr.StatusCode, error |-> apiErr.Code]

\* The denial branch without its return: the 429 is written and the
\* wrapped handler runs all the same.
RespondFallthrough(cfg, ok, t) ==
    [allowed |-> ok,
     status |-> IF ok THEN StatusOK ELSE HandleError(ErrTooManyRequests).status,
     error |-> IF ok THEN "" ELSE HandleError(ErrTooManyRequests).error,
     headers |-> IF ok
                 THEN ("X-RateLimit-Limit" :> cfg.RequestsPerSecond)
                      @@ ("X-RateLimit-Remaining" :> cfg.BurstSize - 1)
                 ELSE ("X-RateLimit-Limit" :> cfg.RequestsPerSecond)
                      @@ ("X-RateLimit-Remaining" :> cfg.BurstSize - 1)
                      @@ ("X-RateLimit-Reset" :> t + TicksPerSecond),
     handlerRan |-> TRUE]

\* Lines 123-138: what the middleware writes once Allow() has answered ok
\* at time t.
Respond(cfg, ok, t) ==
    IF ~ok
    THEN [allowed |-> FALSE,
          status |-> HandleError(ErrTooManyRequests).status,
          error |-> HandleError(ErrTooManyRequests).error,
          headers |-> ("X-RateLimit-Limit" :> cfg.RequestsPerSecond)
                      @@ ("X-RateLimit-Remaining" :> 0)
                      @@ ("X-RateLimit-Reset" :> t + TicksPerSecond),
          handlerRan |-> FALSE]
    ELSE [allowed |-> TRUE,
          status |-> StatusOK,
          error |-> "",
          headers |-> ("X-RateLimit-Limit" :> cfg.RequestsPerSecond)
                      @@ ("X-RateLimit-Remaining" :> cfg.BurstSize - 1),
          handlerRan |-> TRUE]

\* History origin of a newly created entry.
Origin(g, k) ==
    IF limiterMap[g][k] # NoEntry THEN "stale"
    ELSE IF Len(entries[g][k]) > 0 THEN "evicted"
    ELSE "first"

\* References to every entry ever allocated.
Refs == {r \in [reg : Limiters, key : IPs, ver : 1..nreq] :
            r.ver <= Len(entries[r.reg][r.key])}
Entry(r) == entries[r.reg][r.key][r.ver]
Hist(r) == hist[r.reg][r.key][r.ver]
Registered(r) == limiterMap[r.reg][r.key] = r.ver

\* -------------------------------------------------------- token service
\* domain/auth/errors.go: the error values of the token service; nil is "".
ErrInvalidEmail == "invalid email format"
ErrInvalidToken == "invalid token"
ErrInvalidSecretKey == "invalid secret key"
ErrMissingToken == "missing token"
ErrInvalidUserID == "invalid user ID"
ErrInvalidDuration == "invalid duration"
ErrEmptyToken == "empty token"
ErrTokenExpired == "token expired"
nil == ""

\* Secrets the services are built with (NewJWTService), "" being an unset
\* key, and a secret only an outsider holds.
Secrets == {"secret-key-1", "secret-key-2"}
ServiceKeys == Secrets \cup {""}
OutsiderKey == "outsider-key"

UserIDs == {0, 1}
Emails == {"", "test@example.com"}
\* time.Duration arguments of direct calls, in ticks: zero, below a second,
\* a second (the application service passes Day).
Durations == {0, 1, TicksPerSecond}

\* jwt.NewNumericDate: a time truncated to whole seconds (Unix time).
NewNumericDate(t) == t \div TicksPerSecond
\* NumericDate.Time back on the clock of the model.
NumericTime(sec) == sec * TicksPerSecond

\* Token strings.  raw is "" for the empty string, a dotted string that does
\* not decode, or "jwt" for three segments that decode to the header (alg),
\* the claims and the signature carried in the other fields.
NoClaims == [user_id |-> 0, email |-> "", iat |-> 0, exp |-> 0, nbf |-> 0]
NoSignature == [alg |-> "", key |-> "", msg |-> NoClaims]
RawString(raw) == [raw |-> raw, alg |-> "", claims |-> NoClaims, sig |-> NoSignature]
EmptyString == RawString("")
Garbage == RawString("invalid.jwt.token")

\* SigningMethodHMAC.Sign: the MAC of the encoded claims under a key; equal
\* MACs come only from equal algorithm, key and message.
HMACAlgs == {"HS256", "HS384", "HS512"}
HMAC(alg, key, msg) == [alg |-> alg, key |-> key, msg |-> msg]

\* token.SignedString(key) of jwt.NewWithClaims(method, claims).
SignedString(alg, key, claims) ==
    [raw |-> "jwt", alg |-> alg, claims |-> claims, sig |-> HMAC(alg, key, claims)]

\* Lines 163-202: JWTService.GenerateToken at time t by the service built
\* with key.  The result is the pair (tokenString, err).
GenerateTokenUnchecked(key, userID, email, duration, t) ==
    [token |-> SignedString("HS256", key,
                   [user_id |-> userID, email |-> email,
                    iat |-> NewNumericDate(t), exp |-> NewNumericDate(t + duration),
                    nbf |-> NewNumericDate(t)]),
     err |-> nil]
GenerateToken(key, userID, email, duration, t) ==
    IF userID <= 0 THEN [token |-> EmptyString, err |-> ErrInvalidUserID]
    ELSE IF email = "" THEN [token |-> EmptyString, err |-> ErrInvalidEmail]
    ELSE IF duration <= 0 THEN [token |-> EmptyString, err |-> ErrInvalidDuration]
    ELSE IF key = "" THEN [token |-> EmptyString, err |-> ErrInvalidSecretKey]
    ELSE [token |-> SignedString("HS256", key,
                       [user_id |-> userID, email |-> email,
                        iat |-> NewNumericDate(t), exp |-> NewNumericDate(t + duration),
                        nbf |-> NewNumericDate(t)]),
          err |-> nil]

\* Lines 213-219: jwt.ParseWithClaims with the key function of the service,
\* at time t; the value is err.Error(), "" for a nil error.  The parser
\* decodes the segments, runs the key function (which refuses every method
\* that is not a *SigningMethodHMAC), verifies the signature, then validates
\* the registered claims (exp, nbf) and wraps what they report.
ParseWithClaimsAnyKey(tok, key, t) ==
    IF tok.raw # "jwt" THEN "token is malformed"
    ELSE IF tok.alg \notin HMACAlgs
    THEN "token is unverifiable: error while executing keyfunc: invalid token"
    ELSE IF tok.sig.msg # tok.claims
    THEN "token signature is invalid: signature is invalid"
    ELSE IF ~(t < NumericTime(tok.claims.exp))
    THEN "token has invalid claims: token is expired"
    ELSE IF t < NumericTime(tok.claims.nbf)
    THEN "token has invalid claims: token is not valid yet"
    ELSE ""
ParseWithClaimsEarlyExpiry(tok, key, t) ==
    IF tok.raw # "jwt" THEN "token is malformed"
    ELSE IF tok.alg \notin HMACAlgs
    THEN "token is unverifiable: error while executing keyfunc: invalid token"
    ELSE IF tok.sig # HMAC(tok.alg, key, tok.claims)
    THEN "token signature is invalid: signature is invalid"
    ELSE IF ~(t + TicksPerSecond < NumericTime(tok.claims.exp))
    THEN "token has invalid claims: token is expired"
    ELSE IF t < NumericTime(tok.claims.nbf)
    THEN "token has invalid claims: token is not valid yet"
    ELSE ""
ParseWithClaimsExactExpiry(tok, key, t) ==
    IF tok.raw # "jwt" THEN "token is malformed"
    ELSE IF tok.alg \notin HMACAlgs
    THEN "token is unverifiable: error while executing keyfunc: invalid token"
    ELSE IF tok.sig # HMAC(tok.alg, key, tok.claims)
    THEN "token signature is invalid: signature is invalid"
    ELSE IF t = NumericTime(tok.claims.exp)
    THEN "token has invalid claims: token is expired"
    ELSE IF t < NumericTime(tok.claims.nbf)
    THEN "token has invalid claims: token is not valid yet"
    ELSE ""
ParseWithClaimsNoExpiry(tok, key, t) ==
    IF tok.raw # "jwt" THEN "token is malformed"
    ELSE IF tok.alg \notin HMACAlgs
    THEN "token is unverifiable: error while executing keyfunc: invalid token"
    ELSE IF tok.sig # HMAC(tok.alg, key, tok.claims)
    THEN "token signature is invalid: signature is invalid"
    ELSE IF t < NumericTime(tok.claims.nbf)
    THEN "token has invalid claims: token is not valid yet"
    ELSE ""
ParseWithClaims(tok, key, t) ==
    IF tok.raw # "jwt" THEN "token is malformed"
    ELSE IF tok.alg \notin HMACAlgs
    THEN "token is unverifiable: error while executing keyfunc: invalid token"
    ELSE IF tok.sig # HMAC(tok.alg, key, tok.claims)
    THEN "token signature is invalid: signature is invalid"
    ELSE IF ~(t < NumericTime(tok.claims.exp))
    THEN "token has invalid claims: token is expired"
    ELSE IF t < NumericTime(tok.claims.nbf)
    THEN "token has invalid claims: token is not valid yet"
    ELSE ""

\* auth.TokenClaims built from the verified claims (lines 235-240).
TokenClaims(c) ==
    [UserID |-> c.user_id, Email |-> c.email, IssuedAt |-> c.iat, ExpiresAt |-> c.exp]

\* Lines 205-241: JWTService.ValidateToken at time t.  The result is the
\* pair (claims, err); claims is <<>> for a nil pointer.
ValidateTokenLenient(key, tok, t) ==
    LET errMsg == ParseWithClaims(tok, key, t)
    IN  IF tok.raw = "" THEN [claims |-> <<>>, err |-> ErrEmptyToken]
        ELSE IF key = "" THEN [claims |-> <<>>, err |-> ErrInvalidSecretKey]
        ELSE IF errMsg # "" /\ tok.raw # "jwt"
        THEN [claims |-> <<>>, err |-> ErrInvalidToken]
        ELSE [claims |-> <<TokenClaims(tok.claims)>>, err |-> nil]
ValidateToken(key, tok, t) ==
    LET errMsg == ParseWithClaims(tok, key, t)
    IN  IF tok.raw = "" THEN [claims |-> <<>>, err |-> ErrEmptyToken]
        ELSE IF key = "" THEN [claims |-> <<>>, err |-> ErrInvalidSecretKey]
        ELSE IF errMsg # ""
        THEN IF errMsg = "token is expired" \/ errMsg = "Token is expired"
             THEN [claims |-> <<>>, err |-> ErrTokenExpired]
             ELSE [claims |-> <<>>, err |-> ErrInvalidToken]
        ELSE [claims |-> <<TokenClaims(tok.claims)>>, err |-> nil]

\* Lines 244-254: JWTService.RefreshToken called at time t, its
\* time.Sleep returning at time t2.
RefreshTokenOther(key, tok, t, t2) ==
    LET v == ValidateToken(key, tok, t)
    IN  IF v.err # nil THEN [token |-> EmptyString, err |-> v.err]
        ELSE GenerateToken(key, v.claims[1].UserID + 1, v.claims[1].Email, Day, t2)
RefreshToken(key, tok, t, t2) ==
    LET v == ValidateToken(key, tok, t)
    IN  IF v.err # nil THEN [token |-> EmptyString, err |-> v.err]
        ELSE GenerateToken(key, v.claims[1].UserID, v.claims[1].Email, Day, t2)

\* Application service (AuthService).  A *user.User is <<>> for nil and
\* <<u>> for a pointer to u; a result carries the panic that ended the
\* call, if any, and whether the token service was called.
ErrInvalidCredentials == "invalid credentials"
ErrUserExists == "user already exists"
ErrNilUser == "user cannot be nil"
NilDereference == "runtime error: invalid memory address or nil pointer dereference"
NoPanic == ""
WrapGenerate(err) == "failed to generate token: " \o err

\* AuthService.GenerateToken (lines 29-46) at time t.  The arguments of the
\* Debug call of line 30, user.ID and user.Email, are evaluated before the
\* nil check of line 32.
AuthGenerateToken(key, user, t) ==
    IF user = <<>>
    THEN [token |-> EmptyString, err |-> nil, panic |-> NilDereference, called |-> FALSE]
    ELSE IF user = <<>>
    THEN [token |-> EmptyString, err |-> ErrNilUser, panic |-> NoPanic, called |-> FALSE]
    ELSE LET r == GenerateToken(key, user[1].ID, user[1].Email, Day, t)
         IN  [token |-> IF r.err # nil THEN EmptyString ELSE r.token,
              err |-> r.err, panic |-> NoPanic, called |-> TRUE]

\* AuthService.Login (lines 63-82) once userService.Login has returned res,
\* the pair (u, err).
LoginKeepsToken(key, res, t) ==
    LET g == AuthGenerateToken(key, res.user, t)
    IN  IF res.err # nil
        THEN [user |-> <<>>, token |-> SignedString("HS256", key, NoClaims),
              err |-> res.err, panic |-> NoPanic, called |-> TRUE]
        ELSE [user |-> res.user, token |-> g.token, err |-> g.err,
              panic |-> g.panic, called |-> g.called]
Login(key, res, t) ==
    LET g == AuthGenerateToken(key, res.user, t)
    IN  IF res.err # nil
        THEN [user |-> <<>>, token |-> EmptyString, err |-> res.err,
              panic |-> NoPanic, called |-> FALSE]
        ELSE IF g.panic # NoPanic
        THEN [user |-> <<>>, token |-> EmptyString, err |-> nil,
              panic |-> g.panic, called |-> g.called]
        ELSE IF g.err # nil
        THEN [user |-> <<>>, token |-> EmptyString, err |-> WrapGenerate(g.err),
              panic |-> NoPanic, called |-> g.called]
        ELSE [user |-> res.user, token |-> g.token, err |-> nil,
              panic |-> NoPanic, called |-> g.called]

\* AuthService.Register (lines 85-104) once userService.Register has
\* returned res.
Register(key, res, t) ==
    LET g == AuthGenerateToken(key, res.user, t)
    IN  IF res.err # nil
        THEN [user |-> <<>>, token |-> EmptyString, err |-> res.err,
              panic |-> NoPanic, called |-> FALSE]
        ELSE IF g.panic # NoPanic
        THEN [user |-> <<>>, token |-> EmptyString, err |-> nil,
              panic |-> g.panic, called |-> g.called]
        ELSE IF g.err # nil
        THEN [user |-> <<>>, token |-> EmptyString, err |-> WrapGenerate(g.err),
              panic |-> NoPanic, called |-> g.called]
        ELSE [user |-> res.user, token |-> g.token, err |-> nil,
              panic |-> NoPanic, called |-> g.called]

\* ------------------------------------------------------ auth middleware
StatusUnauthorized == 401

\* An Authorization header: the scheme word and, when a space follows it,
\* the rest of the header.  The header is absent (Get returns "") when the
\* scheme is empty and no space follows.
Schemes == {"", "Bearer", "Basic"}
NoHeader == [scheme |-> "", space |-> FALSE, token |-> EmptyString]
IsBlank(h) == h.scheme = "" /\ ~h.space /\ h.token.raw = ""

\* The two AuthMiddleware types of the repository: the one over the
\* TokenService and the one over the AuthService, which the routes use.
Middlewares == {"TokenService", "AuthService"}

\* c.JSON bodies and context values; <<>> is an unset value.
Body(error, message) == [error |-> error, message |-> message]
NoContext == [user |-> <<>>, user_id |-> <<>>, user_email |-> <<>>]
Response(status, body, validated, ran, ctx) ==
    [status |-> status, body |-> body, validated |-> validated,
     handlerRan |-> ran, ctx |-> ctx]
Denied(body, validated) ==
    Response(StatusUnauthorized, body, validated, FALSE, NoContext)

\* auth_middleware.go lines 75-93: extractToken.
extractToken(h) ==
    IF IsBlank(h) THEN [token |-> EmptyString, err |-> ErrMissingToken]
    ELSE IF ~(h.scheme = "Bearer" /\ h.space)
    THEN [token |-> EmptyString, err |-> ErrInvalidToken]
    ELSE IF h.token.raw = "" THEN [token |-> EmptyString, err |-> ErrInvalidToken]
    ELSE [token |-> h.token, err |-> nil]

\* AuthService.ValidateToken (application service, lines 49-60).
AuthValidateToken(key, tok, t) == ValidateToken(key, tok, t)

\* RequireAuth over the TokenService (auth_middleware.go lines 25-47).
RequireAuthTokenService(h, key, t) ==
    LET x == extractToken(h)
        v == ValidateToken(key, x.token, t)
    IN  IF x.err # nil
        THEN Denied(Body("missing or invalid authorization header", ""), FALSE)
        ELSE IF v.err # nil
        THEN Denied(Body("invalid or expired token", ""), TRUE)
        ELSE Response(StatusOK, Body("", ""), TRUE, TRUE,
                      [NoContext EXCEPT !.user = v.claims])

RequireAuthNoEmptyCheck(h, key, t) ==
    LET v == AuthValidateToken(key, h.token, t)
    IN  IF IsBlank(h)
        THEN Denied(Body("Unauthorized", "Authorization header required"), FALSE)
        ELSE IF ~(h.space /\ h.scheme = "Bearer")
        THEN Denied(Body("Unauthorized", "Invalid authorization header format"), FALSE)
        ELSE IF v.err # nil
        THEN Denied(Body("Unauthorized", "Invalid or expired token"), TRUE)
        ELSE Response(StatusOK, Body("", ""), TRUE, TRUE,
                      [NoContext EXCEPT !.user_id = <<v.claims[1].UserID>>,
                                        !.user_email = <<v.claims[1].Email>>])
RequireAuthLeaky(h, key, t) ==
    LET v == AuthValidateToken(key, h.token, t)
    IN  IF IsBlank(h)
        THEN Denied(Body("Unauthorized", "Authorization header required"), FALSE)
        ELSE IF ~(h.space /\ h.scheme = "Bearer")
        THEN Denied(Body("Unauthorized", "Invalid authorization header format"), FALSE)
        ELSE IF h.token.raw = ""
        THEN Denied(Body("Unauthorized", "Bearer token required"), FALSE)
        ELSE IF v.err # nil
        THEN Denied(Body("Unauthorized",
                         IF h.token.raw = "jwt" THEN "Invalid or expired token"
                         ELSE "Malformed token"), TRUE)
        ELSE Response(StatusOK, Body("", ""), TRUE, TRUE,
                      [NoContext EXCEPT !.user_id = <<v.claims[1].UserID>>,
                                        !.user_email = <<v.claims[1].Email>>])
\* RequireAuth over the AuthService (middleware of the routes, lines 28-78).
RequireAuthAuthService(h, key, t) ==
    LET v == AuthValidateToken(key, h.token, t)
    IN  IF IsBlank(h)
        THEN Denied(Body("Unauthorized", "Authorization header required"), FALSE)
        ELSE IF ~(h.space /\ h.scheme = "Bearer")
        THEN Denied(Body("Unauthorized", "Invalid authorization header format"), FALSE)
        ELSE IF h.token.raw = ""
        THEN Denied(Body("Unauthorized", "Bearer token required"), FALSE)
        ELSE IF v.err # nil
        THEN Denied(Body("Unauthorized", "Invalid or expired token"), TRUE)
        ELSE Response(StatusOK, Body("", ""), TRUE, TRUE,
                      [NoContext EXCEPT !.user_id = <<v.claims[1].UserID>>,
                                        !.user_email = <<v.claims[1].Email>>])

RequireAuth(mw, h, key, t) ==
    IF mw = "TokenService" THEN RequireAuthTokenService(h, key, t)
    ELSE RequireAuthAuthService(h, key, t)

\* ------------------------------------------------------------- posts
\* domain/post: the errors of the repository and of the entity.
ErrPostNotFound == "post not found"
ErrInvalidPostData == "invalid post data"
ErrUnauthorized == "unauthorized access to post"
ErrAuthorID == "author ID must be positive"
ErrTitleEmpty == "title cannot be empty"
ErrTitleLong == "title cannot exceed 500 characters"
ErrContentEmpty == "content cannot be empty"
ErrContentShort == "content must be at least 10 characters"
ErrContentLong == "content cannot exceed 10000 characters"
ErrDatabase == "database error"
MaxTitleLen == 500
MinContentLen == 10
MaxContentLen == 10000

\* A Go string: its text without the surrounding white space, the length
\* of that text, and whether white space surrounds it.
String(text, len, spaces) == [text |-> text, len |-> len, spaces |-> spaces]
TrimSpace(str) == [str EXCEPT !.spaces = FALSE]
Titles == {String("", 0, TRUE), String("Original Title", 14, FALSE),
           String("Updated Title", 13, TRUE)}
Contents == {String("too short", 9, FALSE),
             String("Original content with sufficient length.", 40, FALSE)}
\* Callers of the post service, and 0 for no user.
Callers == {1, 2}

validateTitle(title) ==
    IF TrimSpace(title).len = 0 THEN ErrTitleEmpty
    ELSE IF TrimSpace(title).len > MaxTitleLen THEN ErrTitleLong
    ELSE nil
validateContent(content) ==
    IF TrimSpace(content).len = 0 THEN ErrContentEmpty
    ELSE IF TrimSpace(content).len < MinContentLen THEN ErrContentShort
    ELSE IF TrimSpace(content).len > MaxContentLen THEN ErrContentLong
    ELSE nil

\* post.NewPost at time t: the pair (*Post, err), the pointer being <<>> for
\* nil; ID 0 until the repository assigns one.
NewPost(title, content, authorID, t) ==
    IF validateTitle(title) # nil THEN [post |-> <<>>, err |-> validateTitle(title)]
    ELSE IF validateContent(content) # nil
    THEN [post |-> <<>>, err |-> validateContent(content)]
    ELSE IF authorID <= 0 THEN [post |-> <<>>, err |-> ErrAuthorID]
    ELSE [post |-> <<[ID |-> 0, Title |-> TrimSpace(title), Content |-> TrimSpace(content),
                      AuthorID |-> authorID, CreatedAt |-> t, UpdatedAt |-> t]>>,
          err |-> nil]

\* (*Post).Update at time t: the post after the call and the error.
PostUpdate(p, title, content, t) ==
    IF validateTitle(title) # nil THEN [post |-> p, err |-> validateTitle(title)]
    ELSE IF validateContent(content) # nil THEN [post |-> p, err |-> validateContent(content)]
    ELSE [post |-> [p EXCEPT !.Title = TrimSpace(title), !.Content = TrimSpace(content),
                             !.UpdatedAt = t],
          err |-> nil]

\* An ownership test that lets everyone through.
IsAuthorAny(p, userID) == TRUE

\* (*Post).IsAuthor
IsAuthor(p, userID) == p.AuthorID = userID

\* PostRepository over the posts table; fail names the repository method
\* whose statement the database refuses.  Each result carries the table
\* after the call.
HasRow(table, id) == id \in 1..Len(table) /\ table[id] # <<>>
RepoCreate(table, p, fail) ==
    IF p = <<>> THEN [table |-> table, post |-> p, err |-> ErrInvalidPostData]
    ELSE IF fail = "Create" THEN [table |-> table, post |-> p, err |-> ErrDatabase]
    ELSE LET row == [p[1] EXCEPT !.ID = Len(table) + 1]
         IN  [table |-> Append(table, <<row>>), post |-> <<row>>, err |-> nil]
RepoGetByID(table, id, fail) ==
    IF fail = "GetByID" THEN [post |-> <<>>, err |-> ErrDatabase]
    ELSE IF ~HasRow(table, id) THEN [post |-> <<>>, err |-> ErrPostNotFound]
    ELSE [post |-> table[id], err |-> nil]
RepoUpdate(table, p, fail) ==
    IF p = <<>> THEN [table |-> table, err |-> ErrInvalidPostData]
    ELSE IF fail = "Update" THEN [table |-> table, err |-> ErrDatabase]
    ELSE IF ~HasRow(table, p[1].ID) THEN [table |-> table, err |-> ErrPostNotFound]
    ELSE [table |-> [table EXCEPT ![p[1].ID] =
                        <<[@[1] EXCEPT !.Title = p[1].Title, !.Content = p[1].Content,
                                       !.UpdatedAt = p[1].UpdatedAt]>>],
          err |-> nil]
RepoDelete(table, id, fail) ==
    IF fail = "Delete" THEN [table |-> table, err |-> ErrDatabase]
    ELSE IF ~HasRow(table, id) THEN [table |-> table, err |-> ErrPostNotFound]
    ELSE [table |-> [table EXCEPT ![id] = <<>>], err |-> nil]

\* PostService.CreatePost (lines 24-43) at time t.  A result is the post
\* returned, the error, the table after the call and the repository
\* methods called.
CreatePost(table, userID, title, content, fail, t) ==
    LET n == NewPost(title, content, userID, t)
        c == RepoCreate(table, n.post, fail)
    IN  IF n.err # nil
        THEN [post |-> <<>>, err |-> n.err, table |-> table, repo |-> <<>>]
        ELSE IF c.err # nil
        THEN [post |-> <<>>, err |-> c.err, table |-> c.table, repo |-> <<"Create">>]
        ELSE [post |-> c.post, err |-> nil, table |-> c.table, repo |-> <<"Create">>]

\* PostService.UpdatePost (lines 86-118) at time t.
UpdatePost(table, userID, postID, title, content, fail, t) ==
    LET g == RepoGetByID(table, postID, fail)
        e == PostUpdate(g.post[1], title, content, t)
        u == RepoUpdate(table, <<e.post>>, fail)
    IN  IF g.err # nil
        THEN [post |-> <<>>, err |-> g.err, table |-> table, repo |-> <<"GetByID">>]
        ELSE IF ~IsAuthor(g.post[1], userID)
        THEN [post |-> <<>>, err |-> ErrUnauthorized, table |-> table,
              repo |-> <<"GetByID">>]
        ELSE IF e.err # nil
        THEN [post |-> <<>>, err |-> e.err, table |-> table, repo |-> <<"GetByID">>]
        ELSE IF u.err # nil
        THEN [post |-> <<>>, err |-> u.err, table |-> u.table,
              repo |-> <<"GetByID", "Update">>]
        ELSE [post |-> <<e.post>>, err |-> nil, table |-> u.table,
              repo |-> <<"GetByID", "Update">>]

\* PostService.DeletePost (lines 121-146).
DeletePost(table, userID, postID, fail) ==
    LET g == RepoGetByID(table, postID, fail)
        d == RepoDelete(table, postID, fail)
    IN  IF g.err # nil
        THEN [post |-> <<>>, err |-> g.err, table |-> table, repo |-> <<"GetByID">>]
        ELSE IF ~IsAuthor(g.post[1], userID)
        THEN [post |-> <<>>, err |-> ErrUnauthorized, table |-> table,
              repo |-> <<"GetByID">>]
        ELSE [post |-> <<>>, err |-> d.err, table |-> d.table,
              repo |-> <<"GetByID", "Delete">>]

\* No call yet.  t is the time of a call, done the time RefreshToken
\* returned; arg is the user pointer or the user service's result given to
\* the application service, user the user pointer it returned.
NoOp ==
    [op |-> "none", mw |-> "", key |-> "", tok |-> EmptyString, header |-> NoHeader,
     t |-> 0, done |-> 0, userID |-> 0, email |-> "", duration |-> 0,
     err |-> nil, claims |-> <<>>, token |-> EmptyString,
     arg |-> [user |-> <<>>, err |-> nil], user |-> <<>>,
     panic |-> NoPanic, called |-> FALSE,
     postID |-> 0, post |-> <<>>, repo |-> <<>>,
     resp |-> Response(0, Body("", ""), FALSE, FALSE, NoContext)]

\* The state of the server after construction: empty registries, no token.
Empty ==
    /\ now = 0
    /\ limiterMap = [g \in Limiters |-> [k \in IPs |-> NoEntry]]
    /\ entries = [g \in Limiters |-> [k \in IPs |-> <<>>]]
    /\ inflight = EmptyBag
    /\ nreq = 0
    /\ hist = [g \in Limiters |-> [k \in IPs |-> <<>>]]
    /\ issued = {}
    /\ lastOp = NoOp
    /\ posts = <<>>

\* The two limiters of the server, each with its policy.
Init ==
    /\ config \in {c \in [Limiters -> Configs] :
                      c["auth"] \in AuthConfigs /\ c["default"] \in DefaultConfigs}
    /\ Empty

\* The default limiter built with any configuration.
InitKey ==
    /\ config \in {c \in [Limiters -> Configs] : c["auth"] \in AuthConfigs}
    /\ Empty

\* Lines 108-121: the handler resolves the key and, under mu, looks the
\* entry up, creating or replacing it, or refreshing lastSeen.
Lookup(l, ip) ==
    LET g == RegistryOf(l)
        k == KeyGenerator(l, ip)
        fresh == Len(entries[g][k]) + 1
        rq(v) == [lim |-> l, ip |-> ip, entry |-> [reg |-> g, key |-> k, ver |-> v]]
    IN  /\ BagCardinality(inflight) < NumProcs
        /\ nreq' = nreq + 1
        /\ IF NeedsFresh(g, k)
           THEN /\ entries' = [entries EXCEPT ![g][k] = Append(@, NewEntry(config[l], now))]
                /\ limiterMap' = [limiterMap EXCEPT ![g][k] = fresh]
                /\ hist' = [hist EXCEPT ![g][k] =
                               Append(@, [lim |-> l, born |-> now,
                                          origin |-> Origin(g, k), log |-> <<>>])]
                /\ inflight' = inflight (+) SetToBag({rq(fresh)})
           ELSE /\ entries' = [entries EXCEPT ![g][k][limiterMap[g][k]].lastSeen = now]
                /\ inflight' = inflight (+) SetToBag({rq(limiterMap[g][k])})
                /\ UNCHANGED <<limiterMap, hist>>
        /\ UNCHANGED <<now, config, issued, lastOp, posts>>

\* Lines 123-138: entry.limiter.Allow() on the entry obtained under the
\* lock, then the 429 response or the wrapped handler.
Allow(rq) ==
    LET e == rq.entry
        r == LimiterAllow(Entry(e).limiter, now)
    IN  /\ BagIn(rq, inflight)
        /\ entries' = [entries EXCEPT ![e.reg][e.key][e.ver].limiter = r.lim]
        /\ inflight' = inflight (-) SetToBag({rq})
        /\ hist' = [hist EXCEPT ![e.reg][e.key][e.ver].log =
                        Append(@, [t |-> now, lim |-> rq.lim, ip |-> rq.ip,
                                   ok |-> r.ok, after |-> r.lim.tokens,
                                   registered |-> Registered(e),
                                   peers |-> CopiesIn(rq, inflight) - 1,
                                   resp |-> Respond(config[rq.lim], r.ok, now)])]
        /\ UNCHANGED <<now, config, limiterMap, nreq, issued, lastOp, posts>>

\* The loop of cleanupExpiredLimiters: registry g once every entry whose
\* lastSeen is before the cutoff has been deleted.
Swept(g) ==
    [k \in IPs |-> IF limiterMap[g][k] # NoEntry
                      /\ Expired(entries[g][k][limiterMap[g][k]], now)
                   THEN NoEntry ELSE limiterMap[g][k]]

\* cleanupExpiredLimiters(limiterMap, &mu), run by the ticker goroutine.
Sweep(l) ==
    /\ limiterMap' = [limiterMap EXCEPT ![RegistryOf(l)] = Swept(RegistryOf(l))]
    /\ UNCHANGED <<now, config, entries, inflight, nreq, hist, issued, lastOp, posts>>

\* The clock moves on, by a tick or by an hour.
Tick(d) ==
    /\ (now % Hour) + (now \div Hour) < MaxAdvances
    /\ now' = now + d
    /\ UNCHANGED <<config, limiterMap, entries, inflight, nreq, hist, issued, lastOp, posts>>

\* Requests of every client through every limiter.
Next ==
    \/ \E l \in Limiters, ip \in IPs : nreq < MaxRequests /\ Lookup(l, ip)
    \/ \E rq \in BagToSet(inflight) : Allow(rq)
    \/ \E l \in Limiters : Sweep(l)
    \/ \E d \in {1, Hour} : Tick(d)

Spec == Init /\ [][Next]_vars

\* Requests of one client through one limiter, and more of them.
NextKey ==
    \/ nreq < MaxKeyRequests /\ Lookup("default", "A")
    \/ \E rq \in BagToSet(inflight) : Allow(rq)
    \/ Sweep("default")
    \/ \E d \in {1, Hour} : Tick(d)

SpecKey == InitKey /\ [][NextKey]_vars

\* Requests of every client through the default limiter while the ticker
\* goroutine (lines 97-104) keeps running the sweep: a sweep that has
\* something to remove is not postponed for ever.
NextLive ==
    \/ \E ip \in IPs : nreq < MaxRequests /\ Lookup("default", ip)
    \/ \E rq \in BagToSet(inflight) : Allow(rq)
    \/ Sweep("default")
    \/ \E d \in {1, Hour} : Tick(d)

SpecLive == Init /\ [][NextLive]_vars /\ WF_vars(Sweep("default"))

\* ------------------------------------------- token service in operation
limiterVars == <<config, limiterMap, entries, inflight, nreq, hist>>

\* The user the user service hands to Login and Register.
Users == {[ID |-> 1, Email |-> "test@example.com"]}

\* Token strings a caller can present.
Strings == issued \cup {EmptyString, Garbage}
\* Authorization headers: none, a scheme alone, and a scheme followed by a
\* space and a token string.
Headers == {h \in [scheme : Schemes, space : BOOLEAN, token : Strings] :
               /\ ~h.space => h.token = EmptyString /\ h.scheme \in {"", "Bearer"}
               /\ h.space => h.scheme # ""}

\* A direct call of JWTService.GenerateToken.
CallGenerateToken(key, userID, email, duration) ==
    LET r == GenerateToken(key, userID, email, duration, now)
    IN  /\ issued = {}
        /\ lastOp' = [NoOp EXCEPT !.op = "GenerateToken", !.key = key, !.t = now,
                                  !.userID = userID, !.email = email,
                                  !.duration = duration,
                                  !.err = r.err, !.token = r.token]
        /\ issued' = IF r.err = nil
                     THEN issued \cup {r.token} ELSE issued
        /\ UNCHANGED <<now, limiterVars, posts>>

\* What userService.Login and userService.Register return: the user and no
\* error, or no user and an error.
UserPointers == {<<>>} \cup {<<u>> : u \in Users}
UserResults(op) ==
    {[user |-> <<u>>, err |-> nil] : u \in Users}
        \cup {[user |-> <<>>,
                err |-> IF op = "Login" THEN ErrInvalidCredentials ELSE ErrUserExists]}

\* A call of AuthService.Login or AuthService.Register (application
\* service, lines 63-104), the user service returning res.
Authenticate(op, key, res) ==
    LET r == IF op = "Login" THEN Login(key, res, now) ELSE Register(key, res, now)
    IN  /\ issued = {}
        /\ lastOp' = [NoOp EXCEPT !.op = op, !.key = key, !.t = now, !.arg = res,
                                  !.err = r.err, !.token = r.token, !.user = r.user,
                                  !.panic = r.panic, !.called = r.called]
        /\ issued' = IF r.token # EmptyString THEN issued \cup {r.token} ELSE issued
        /\ UNCHANGED <<now, limiterVars, posts>>

\* A direct call of AuthService.GenerateToken with a user pointer.
CallAuthGenerateToken(key, user) ==
    LET r == AuthGenerateToken(key, user, now)
    IN  /\ issued = {}
        /\ lastOp' = [NoOp EXCEPT !.op = "AuthService.GenerateToken", !.key = key,
                                  !.t = now, !.arg = [user |-> user, err |-> nil],
                                  !.err = r.err, !.token = r.token,
                                  !.panic = r.panic, !.called = r.called]
        /\ issued' = IF r.token # EmptyString THEN issued \cup {r.token} ELSE issued
        /\ UNCHANGED <<now, limiterVars, posts>>

\* A call of JWTService.ValidateToken.
CallValidateToken(key, tok) ==
    LET v == ValidateToken(key, tok, now)
    IN  /\ lastOp' = [NoOp EXCEPT !.op = "ValidateToken", !.key = key, !.t = now,
                                  !.tok = tok, !.err = v.err, !.claims = v.claims]
        /\ UNCHANGED <<now, issued, limiterVars, posts>>

\* A call of JWTService.RefreshToken (also behind AuthService.RefreshToken);
\* its sleep of a millisecond may carry the clock over a tick.
CallRefreshToken(key, tok, d) ==
    LET r == RefreshToken(key, tok, now, now + d)
    IN  /\ Cardinality(issued) < MaxTokens
        /\ d = 0 \/ (now % Hour) + (now \div Hour) < MaxAdvances
        /\ now' = now + d
        /\ lastOp' = [NoOp EXCEPT !.op = "RefreshToken", !.key = key, !.t = now,
                                  !.done = now + d,
                                  !.tok = tok, !.err = r.err, !.token = r.token]
        /\ issued' = IF r.err = nil
                     THEN issued \cup {r.token} ELSE issued
        /\ UNCHANGED <<limiterVars, posts>>

\* What someone without the service's key can make of a token they hold:
\* edit its claims, strip or swap its algorithm, or sign it with a key of
\* their own.
Outsider(kind, tok) ==
    LET c == tok.claims
        made ==
            CASE kind = "user" -> [tok EXCEPT !.claims.user_id = c.user_id + 1]
              [] kind = "exp" -> [tok EXCEPT !.claims.exp = c.exp + NewNumericDate(Day)]
              [] kind = "none" -> [tok EXCEPT !.alg = "none", !.sig = NoSignature]
              [] kind = "RS256" -> [tok EXCEPT !.alg = "RS256"]
              [] kind = "resign" -> SignedString("HS256", OutsiderKey, c)
              [] kind = "HS512" -> SignedString("HS512", OutsiderKey, c)
    IN  /\ Cardinality(issued) < MaxTokens
        /\ tok.raw = "jwt"
        /\ issued' = issued \cup {made}
        /\ UNCHANGED <<now, lastOp, limiterVars, posts>>
OutsiderKinds == {"user", "exp", "none", "RS256", "resign", "HS512"}

\* A request to a protected route passing through RequireAuth.
Protect(mw, h, key) ==
    /\ lastOp' = [NoOp EXCEPT !.op = "RequireAuth", !.mw = mw, !.key = key,
                              !.t = now, !.header = h,
                              !.resp = RequireAuth(mw, h, key, now)]
    /\ UNCHANGED <<now, issued, limiterVars, posts>>

\* One token of a service and what becomes of it: the calls of the token
\* service on it, on its refreshed successors and on an outsider's copies.
NextToken ==
    \/ \E key \in ServiceKeys, userID \in UserIDs, email \in Emails, duration \in Durations :
          CallGenerateToken(key, userID, email, duration)
    \/ \E op \in {"Login", "Register"}, key \in ServiceKeys :
          \E res \in UserResults(op) : Authenticate(op, key, res)
    \/ \E key \in ServiceKeys, user \in UserPointers : CallAuthGenerateToken(key, user)
    \/ \E key \in ServiceKeys, tok \in Strings : CallValidateToken(key, tok)
    \/ \E key \in ServiceKeys, tok \in Strings, d \in {0, 1} : CallRefreshToken(key, tok, d)
    \/ \E kind \in OutsiderKinds, tok \in issued : Outsider(kind, tok)
    \/ Tick(1)

SpecToken == Init /\ [][NextToken]_vars

\* A token of a service and the requests that present it, or an outsider's
\* copies of it, to a protected route.
NextAuth ==
    \/ \E key \in Secrets, user \in Users, duration \in Durations \ {0} :
          CallGenerateToken(key, user.ID, user.Email, duration)
    \/ \E kind \in OutsiderKinds, tok \in issued : Outsider(kind, tok)
    \/ \E mw \in Middlewares, h \in Headers, key \in Secrets : Protect(mw, h, key)
    \/ Tick(1)

SpecAuth == Init /\ [][NextAuth]_vars

\* ---------------------------------------------- post service in operation
postVars == <<now, limiterVars, issued>>

\* Calls of PostService.CreatePost, UpdatePost and DeletePost; the table
\* assigns IDs in order and never reuses one.
CallCreatePost(userID, title, content, fail) ==
    LET r == CreatePost(posts, userID, title, content, fail, now)
    IN  /\ Len(posts) < MaxPosts
        /\ posts' = r.table
        /\ lastOp' = [NoOp EXCEPT !.op = "CreatePost", !.t = now, !.userID = userID,
                                  !.err = r.err, !.post = r.post, !.repo = r.repo]
        /\ UNCHANGED postVars

CallUpdatePost(userID, postID, title, content, fail) ==
    LET r == UpdatePost(posts, userID, postID, title, content, fail, now)
    IN  /\ posts' = r.table
        /\ lastOp' = [NoOp EXCEPT !.op = "UpdatePost", !.t = now, !.userID = userID,
                                  !.postID = postID,
                                  !.err = r.err, !.post = r.post, !.repo = r.repo]
        /\ UNCHANGED postVars

CallDeletePost(userID, postID, fail) ==
    LET r == DeletePost(posts, userID, postID, fail)
    IN  /\ posts' = r.table
        /\ lastOp' = [NoOp EXCEPT !.op = "DeletePost", !.t = now, !.userID = userID,
                                  !.postID = postID,
                                  !.err = r.err, !.post = r.post, !.repo = r.repo]
        /\ UNCHANGED postVars

\* The posts of two users and every caller's attempts on them.
NextPost ==
    \/ \E userID \in Callers \cup {0}, title \in Titles, content \in Contents,
          fail \in {"", "Create"} :
          CallCreatePost(userID, title, content, fail)
    \/ \E userID \in Callers, postID \in 1..(MaxPosts + 1), title \in Titles,
          content \in Contents, fail \in {"", "GetByID", "Update"} :
          CallUpdatePost(userID, postID, title, content, fail)
    \/ \E userID \in Callers, postID \in 1..(MaxPosts + 1), fail \in {"", "GetByID", "Delete"} :
          CallDeletePost(userID, postID, fail)

SpecPost == Init /\ [][NextPost]_vars

TypeOK ==
    /\ now \in Nat
    /\ nreq \in Nat
    /\ \A r \in Refs : Entry(r).lastSeen <= now /\ Hist(r).born <= Entry(r).lastSeen

\* ------------------------------------------------------------ properties
Log(r) == Hist(r).log
Cap(r) == config[Hist(r).lim].BurstSize
Rate(r) == config[Hist(r).lim].RequestsPerSecond
Admitted(r) == Cardinality({i \in 1..Len(Log(r)) : Log(r)[i].ok})

\* The decisions taken on entry r at the instant it was created admit the
\* first Cap(r) requests and no other.
BurstHolds(r) ==
    \A i \in 1..Len(Log(r)) :
        Log(r)[i].t = Hist(r).born => (Log(r)[i].ok <=> i <= Cap(r))

\* C1: burst admission.  For a key the registry has never seen, the first
\* BurstSize requests made at the instant of the first one are all admitted
\* (the wrapped handler runs) and every further request at that instant is
\* denied, whatever the refill rate.
C1_BurstAdmission ==
    \A r \in Refs :
        Hist(r).origin = "first" =>
            /\ BurstHolds(r)
            /\ \A i \in 1..Len(Log(r)) : Log(r)[i].ok => Log(r)[i].resp.handlerRan

C1_Witness ==
    \E r \in Refs :
        /\ Hist(r).origin = "first"
        /\ Len(Log(r)) = Cap(r) + 1
        /\ Log(r)[Cap(r) + 1].t = Hist(r).born
        /\ ~Log(r)[Cap(r) + 1].ok
        /\ Log(r)[Cap(r)].ok

\* C2: same-key requests at one instant.  While no time has elapsed since
\* the requests were looked up, every request in flight holds the entry the
\* registry has for its key, and an entry created at this instant has
\* admitted exactly min(N, BurstSize) of the N requests decided on it.
C2_SameInstant ==
    /\ \A rq \in BagToSet(inflight) :
           Entry(rq.entry).lastSeen = now => Registered(rq.entry)
    /\ \A r \in Refs :
           Hist(r).born = now => Admitted(r) = Min(Len(Log(r)), Cap(r))

C2_Witness ==
    \E r \in Refs :
        /\ Hist(r).born = now
        /\ Len(Log(r)) > Cap(r)
        /\ Log(r)[1].peers >= 1
        /\ Admitted(r) = Cap(r)

\* Tokens of every entry, as stored and as refilled up to now, lie between
\* zero and the configured capacity.
TokensInRange ==
    \A r \in Refs :
        /\ 0 <= Entry(r).limiter.tokens
        /\ Entry(r).limiter.tokens <= Cap(r) * TokenScale
        /\ 0 <= advance(Entry(r).limiter, now)
        /\ advance(Entry(r).limiter, now) <= Cap(r) * TokenScale

\* C3: token range.  After every step each bucket holds between zero and
\* BurstSize tokens, and a step that denies a request leaves the bucket it
\* was decided on as it was.
C3_TokenRange ==
    [][/\ TokensInRange'
       /\ \A r \in Refs :
              (Len(Log(r)') > Len(Log(r)) /\ ~Log(r)'[Len(Log(r)')].ok)
                  => Entry(r)' = Entry(r)]_vars

C3_Witness ==
    \E r \in Refs :
        /\ Len(Log(r)) >= 2
        /\ ~Log(r)[Len(Log(r))].ok
        /\ Entry(r).limiter.tokens < TokenScale
        /\ advance(Entry(r).limiter, now) = Cap(r) * TokenScale

\* What the requests of client key k see in registry g.
KeyState(g, k) == <<limiterMap[g][k], entries[g][k]>>

\* C4: per-key isolation.  A request of client A, looked up or decided,
\* changes neither the registration nor any bucket of another key B, so
\* the outcomes for B are those B would get without A's requests.
C4_KeyIsolation ==
    [][/\ \A l \in Limiters, ip \in IPs :
              Lookup(l, ip) =>
                  \A g \in Limiters, k \in IPs \ {ip} : KeyState(g, k)' = KeyState(g, k)
       /\ \A rq \in BagToSet(inflight) :
              Allow(rq) =>
                  \A g \in Limiters, k \in IPs \ {rq.ip} : KeyState(g, k)' = KeyState(g, k)]_vars

C4_Witness ==
    \E g \in Limiters, a \in IPs, b \in IPs :
        /\ a # b
        /\ Len(entries[g][a]) = 1 /\ Len(entries[g][b]) = 1
        /\ hist[g][a][1].born = now
        /\ Len(hist[g][a][1].log) >= 1
        /\ advance(entries[g][a][1].limiter, now) < TokenScale
        /\ \E j \in 1..Len(hist[g][b][1].log) :
               /\ hist[g][b][1].log[j].ok
               /\ hist[g][b][1].log[j].t = now

\* What limiter l works on: the registry it was built with.
LimiterState(l) == <<limiterMap[RegistryOf(l)], entries[RegistryOf(l)]>>

\* C5: policy isolation.  A request checked by one limiter, and a sweep
\* of its registry, leave the registry, the tokens and the lastSeen of
\* every other limiter unchanged.
C5_PolicyIsolation ==
    [][/\ \A l \in Limiters, ip \in IPs :
              Lookup(l, ip) =>
                  \A m \in Limiters \ {l} : LimiterState(m)' = LimiterState(m)
       /\ \A rq \in BagToSet(inflight) :
              Allow(rq) =>
                  \A m \in Limiters \ {rq.lim} : LimiterState(m)' = LimiterState(m)
       /\ \A l \in Limiters :
              Sweep(l) =>
                  \A m \in Limiters \ {l} : LimiterState(m)' = LimiterState(m)]_vars

C5_Witness ==
    \E k \in IPs :
        /\ Len(entries["auth"][k]) = 1 /\ Len(entries["default"][k]) = 1
        /\ hist["auth"][k][1].born = now
        /\ Len(hist["auth"][k][1].log) >= 1
        /\ advance(entries["auth"][k][1].limiter, now) < TokenScale
        /\ \E j \in 1..Len(hist["default"][k][1].log) :
               /\ hist["default"][k][1].log[j].ok
               /\ hist["default"][k][1].log[j].t = now

\* Number of decisions Allow() has taken on the entries of S.
RECURSIVE Decisions(_)
Decisions(S) ==
    IF S = {} THEN 0
    ELSE LET r == CHOOSE x \in S : TRUE IN Len(Log(r)) + Decisions(S \ {r})

RateLimitHeaders == {"X-RateLimit-Limit", "X-RateLimit-Remaining", "X-RateLimit-Reset"}

\* C6: denial.  A denied request gets status 429 with error code
\* rate_limit_exceeded and the three X-RateLimit headers, Remaining being 0;
\* the wrapped handler does not run for it, and each request is decided by
\* one call of Allow, never retried.
C6_Denial ==
    /\ \A r \in Refs : \A i \in 1..Len(Log(r)) :
           LET d == Log(r)[i] IN
           /\ ~d.ok =>
                 /\ d.resp.status = StatusTooManyRequests
                 /\ d.resp.error = "rate_limit_exceeded"
                 /\ DOMAIN d.resp.headers = RateLimitHeaders
                 /\ d.resp.headers["X-RateLimit-Remaining"] = 0
                 /\ ~d.resp.handlerRan
           /\ d.resp.handlerRan => d.ok
    /\ nreq = Decisions(Refs) + BagCardinality(inflight)

C6_Witness ==
    \E r \in Refs : \E i \in 1..Len(Log(r)) : ~Log(r)[i].ok

\* The admissions recorded for key k of registry g, on whichever entry.
Admissions(g, k) ==
    {a \in [ver : 1..nreq, idx : 1..nreq] :
        /\ a.ver <= Len(hist[g][k])
        /\ a.idx <= Len(hist[g][k][a.ver].log)
        /\ hist[g][k][a.ver].log[a.idx].ok}
AdmitTime(g, k, a) == hist[g][k][a.ver].log[a.idx].t

\* C7: rate bound.  For every key, the requests admitted in any window of
\* length T number at most BurstSize + rate * T, idle entries being evicted
\* or replaced included.
C7_RateBound ==
    \A l \in Limiters, k \in IPs :
        LET g == RegistryOf(l) IN
        \A a \in Admissions(g, k), b \in Admissions(g, k) :
            AdmitTime(g, k, a) <= AdmitTime(g, k, b) =>
                Cardinality({c \in Admissions(g, k) :
                                /\ AdmitTime(g, k, a) <= AdmitTime(g, k, c)
                                /\ AdmitTime(g, k, c) <= AdmitTime(g, k, b)}) * TokenScale
                    <= config[l].BurstSize * TokenScale
                       + config[l].RequestsPerSecond * (AdmitTime(g, k, b) - AdmitTime(g, k, a))

\* Whole tokens refilled into an empty bucket of entry r in d ticks.
Refilled(r, d) == Min(Cap(r) * TokenScale, d * Rate(r)) \div TokenScale

\* Decision i emptied the bucket of r at t0, decision j is the first one at
\* a later instant t1, and decisions j..m were all taken at t1.
AfterEmpty(r, i, j, m) ==
    /\ i < j /\ j <= m /\ m <= Len(Log(r))
    /\ Log(r)[i].ok /\ Log(r)[i].after = 0
    /\ Log(r)[j - 1].t = Log(r)[i].t
    /\ Log(r)[j].t > Log(r)[i].t
    /\ Log(r)[m].t = Log(r)[j].t

SweepRemovesIdle ==
    \A l \in Limiters, k \in IPs :
        LET g == RegistryOf(l) IN
        (/\ limiterMap[g][k] # NoEntry
         /\ now - entries[g][k][limiterMap[g][k]].lastSeen > Hour)
            => Swept(g)[k] = NoEntry

\* C9: eviction.  A sweep removes every entry idle for more than an hour;
\* the first request for a removed key registers a new entry with a full
\* bucket, and the burst admission holds on it again.
C9_Eviction ==
    [][/\ SweepRemovesIdle'
       /\ \A l \in Limiters, ip \in IPs :
              LET g == RegistryOf(l)
                  k == KeyGenerator(l, ip)
              IN  (Lookup(l, ip) /\ limiterMap[g][k] = NoEntry) =>
                      /\ limiterMap'[g][k] = Len(entries'[g][k])
                      /\ limiterMap'[g][k] = Len(entries[g][k]) + 1
                      /\ entries'[g][k][limiterMap'[g][k]].limiter.tokens
                             = config[l].BurstSize * TokenScale
                      /\ entries'[g][k][limiterMap'[g][k]].lastSeen = now
       /\ \A r \in Refs : Hist(r).origin = "evicted" => BurstHolds(r)']_vars

C9_Witness ==
    \E r \in Refs :
        /\ Hist(r).origin = "evicted"
        /\ Len(Log(r)) = Cap(r) + 1
        /\ Log(r)[Cap(r) + 1].t = Hist(r).born
        /\ ~Log(r)[Cap(r) + 1].ok
        /\ Log(r)[Cap(r)].ok

\* C10: no decision on a dead entry.  Every decision of Allow() is taken on
\* the entry that is registered for the request's key at that moment.
C10_DecidesOnRegistered ==
    \A r \in Refs : \A i \in 1..Len(Log(r)) : Log(r)[i].registered

\* ------------------------------------------------ token service properties
\* The token is three decodable segments, carries an HMAC-family algorithm
\* and its signature is the MAC of its claims under key.
SignedUnder(tok, key) ==
    tok.raw = "jwt" /\ tok.alg \in HMACAlgs /\ tok.sig = HMAC(tok.alg, key, tok.claims)
ExpiredAt(tok, t) == t >= NumericTime(tok.claims.exp)

\* C11: a ValidateToken call that directly follows a successful
\* GenerateToken call, at the same instant, on the token it returned and
\* with the same service key, succeeds and returns the UserID and Email
\* given to GenerateToken, with issuedAt <= now <= expiresAt.
C11_RoundTrip ==
    [][(/\ lastOp.op = "GenerateToken" /\ lastOp.err = nil
        /\ lastOp'.op = "ValidateToken"
        /\ lastOp'.tok = lastOp.token /\ lastOp'.key = lastOp.key
        /\ lastOp'.t = lastOp.t)
       => (/\ lastOp'.err = nil
           /\ Len(lastOp'.claims) = 1
           /\ lastOp'.claims[1].UserID = lastOp.userID
           /\ lastOp'.claims[1].Email = lastOp.email
           /\ NumericTime(lastOp'.claims[1].IssuedAt) <= lastOp'.t
           /\ lastOp'.t <= NumericTime(lastOp'.claims[1].ExpiresAt))]_vars

\* C12: validating, at a time at or after its expiresAt, a token whose
\* signature verifies under the service key fails with ErrTokenExpired,
\* which is not ErrInvalidToken.
C12_ExpiredKind ==
    (/\ lastOp.op = "ValidateToken"
     /\ lastOp.key # ""
     /\ SignedUnder(lastOp.tok, lastOp.key)
     /\ ExpiredAt(lastOp.tok, lastOp.t))
    => (lastOp.err = ErrTokenExpired /\ ErrTokenExpired # ErrInvalidToken)

\* C13: a token issued by the service of one key, validated by the service
\* of another non-empty key, yields ErrInvalidToken and no claims.
C13_CrossKey ==
    (/\ lastOp.op = "ValidateToken"
     /\ lastOp.key \in Secrets
     /\ \E k \in Secrets \ {lastOp.key} : SignedUnder(lastOp.tok, k))
    => (lastOp.err = ErrInvalidToken /\ lastOp.claims = <<>>)

C13_Witness ==
    /\ lastOp.op = "ValidateToken"
    /\ lastOp.key \in Secrets
    /\ \E k \in Secrets \ {lastOp.key} :
          /\ SignedUnder(lastOp.tok, k)
          /\ ValidateToken(k, lastOp.tok, lastOp.t).err = nil
    /\ lastOp.err = ErrInvalidToken

\* C14: GenerateToken returns a token exactly when userID > 0, the email is
\* non-empty, duration > 0 and the key is set; otherwise it returns no
\* token and the error of a constraint that is violated (the error of the
\* constraint, when only one is violated), and the four errors are distinct.
C14_InputErrors ==
    lastOp.op = "GenerateToken" =>
        LET badID == lastOp.userID <= 0
            badEmail == lastOp.email = ""
            badDuration == lastOp.duration <= 0
            badKey == lastOp.key = ""
        IN  /\ lastOp.err = nil <=> ~(badID \/ badEmail \/ badDuration \/ badKey)
            /\ lastOp.err = nil <=> lastOp.token # EmptyString
            /\ lastOp.err = ErrInvalidUserID => badID
            /\ lastOp.err = ErrInvalidEmail => badEmail
            /\ lastOp.err = ErrInvalidDuration => badDuration
            /\ lastOp.err = ErrInvalidSecretKey => badKey
            /\ lastOp.err \in {nil, ErrInvalidUserID, ErrInvalidEmail,
                               ErrInvalidDuration, ErrInvalidSecretKey}
            /\ Cardinality({nil, ErrInvalidUserID, ErrInvalidEmail,
                            ErrInvalidDuration, ErrInvalidSecretKey}) = 5

C14_Witness ==
    /\ lastOp.op = "GenerateToken"
    /\ lastOp.userID > 0 /\ lastOp.email # "" /\ lastOp.duration > 0
    /\ lastOp.key = ""
    /\ lastOp.err = ErrInvalidSecretKey

\* C15: ValidateToken returns claims only for a well-formed token signed
\* with an HMAC-family algorithm under the service key and unexpired; in
\* every other case it returns one error and nil claims: ErrEmptyToken for
\* the empty string, else ErrInvalidSecretKey when the key is unset, else
\* ErrInvalidToken for a malformed token, a signature that does not verify
\* or an algorithm outside the HMAC family.
C15_ValidateKinds ==
    lastOp.op = "ValidateToken" =>
        LET tok == lastOp.tok
            key == lastOp.key
        IN  /\ lastOp.claims # <<>> =>
                  SignedUnder(tok, key) /\ key # "" /\ ~ExpiredAt(tok, lastOp.t)
            /\ lastOp.claims # <<>> <=> lastOp.err = nil
            /\ tok.raw = "" => lastOp.err = ErrEmptyToken
            /\ tok.raw # "" /\ key = "" => lastOp.err = ErrInvalidSecretKey
            /\ tok.raw # "" /\ key # "" /\ ~SignedUnder(tok, key) =>
                  lastOp.err = ErrInvalidToken

C15_Witness ==
    /\ lastOp.op = "ValidateToken"
    /\ lastOp.key \in Secrets
    /\ lastOp.tok.raw = "jwt"
    /\ lastOp.tok.alg \notin HMACAlgs
    /\ ~ExpiredAt(lastOp.tok, lastOp.t)
    /\ lastOp.err = ErrInvalidToken

\* C16: RefreshToken on a token that validates at the time of the call
\* returns a token that validates under the same key when the call returns,
\* with the UserID and Email of the original and an issuedAt that is not
\* earlier than the original's.
C16_RefreshValid ==
    lastOp.op = "RefreshToken" =>
        LET old == ValidateToken(lastOp.key, lastOp.tok, lastOp.t)
            new == ValidateToken(lastOp.key, lastOp.token, lastOp.done)
        IN  old.err = nil =>
                /\ lastOp.err = nil
                /\ new.err = nil
                /\ new.claims[1].UserID = old.claims[1].UserID
                /\ new.claims[1].Email = old.claims[1].Email
                /\ new.claims[1].IssuedAt >= old.claims[1].IssuedAt

C16_Witness ==
    /\ lastOp.op = "RefreshToken"
    /\ lastOp.err = nil
    /\ lastOp.token # lastOp.tok
    /\ lastOp.token.claims.iat > lastOp.tok.claims.iat

\* C17: RefreshToken on a string on which ValidateToken fails at the same
\* time fails with the same error and returns no token; for a validly
\* signed token past its expiry that error is ErrTokenExpired.
C17_RefreshInherits ==
    lastOp.op = "RefreshToken" =>
        LET v == ValidateToken(lastOp.key, lastOp.tok, lastOp.t)
        IN  /\ v.err # nil => lastOp.err = v.err /\ lastOp.token = EmptyString
            /\ (/\ lastOp.key # ""
                /\ SignedUnder(lastOp.tok, lastOp.key)
                /\ ExpiredAt(lastOp.tok, lastOp.t)) => lastOp.err = ErrTokenExpired

\* C18: every token handed out by Login, Register or RefreshToken expires
\* two hours after its issuedAt.
StandardHours == 2
C18_TwoHours ==
    (lastOp.op \in {"Login", "Register", "RefreshToken"} /\ lastOp.err = nil)
    => NumericTime(lastOp.token.claims.exp - lastOp.token.claims.iat)
           = StandardHours * Hour

\* ---------------------------------------------- auth middleware properties
Bearer(tok) == [scheme |-> "Bearer", space |-> TRUE, token |-> tok]
IsBearer(h) == h.scheme = "Bearer" /\ h.space /\ h.token.raw # ""

\* C19: RequireAuth runs the protected handler exactly when the header is
\* "Bearer " followed by a non-empty token that validates; without such a
\* header it answers 401 and never calls validate; on a failed validation
\* it answers 401; on success the context holds what validation returned.
C19_RequireAuth ==
    lastOp.op = "RequireAuth" =>
        LET h == lastOp.header
            r == lastOp.resp
            v == ValidateToken(lastOp.key, h.token, lastOp.t)
        IN  /\ r.handlerRan <=> (IsBearer(h) /\ v.err = nil)
            /\ r.validated <=> IsBearer(h)
            /\ ~r.handlerRan => r.status = StatusUnauthorized /\ r.ctx = NoContext
            /\ r.handlerRan =>
                  IF lastOp.mw = "TokenService"
                  THEN r.ctx = [NoContext EXCEPT !.user = v.claims]
                  ELSE r.ctx = [NoContext EXCEPT
                                   !.user_id = <<v.claims[1].UserID>>,
                                   !.user_email = <<v.claims[1].Email>>]

C19_Witness ==
    /\ lastOp.op = "RequireAuth"
    /\ lastOp.mw = "AuthService"
    /\ lastOp.header.scheme = "Bearer" /\ lastOp.header.space
    /\ lastOp.header.token.raw = ""
    /\ lastOp.resp.status = StatusUnauthorized
    /\ \E tok \in issued : RequireAuth(lastOp.mw, Bearer(tok), lastOp.key, lastOp.t).handlerRan

\* C20: the response to a bearer token that fails validation has the same
\* status, 401, and the same body as the response to any other bearer token
\* that fails validation, whatever made each fail.
C20_UniformFailure ==
    (lastOp.op = "RequireAuth" /\ lastOp.resp.validated /\ ~lastOp.resp.handlerRan) =>
        \A tok \in Strings :
            (tok.raw # "" /\ ValidateToken(lastOp.key, tok, lastOp.t).err # nil) =>
                LET r == RequireAuth(lastOp.mw, Bearer(tok), lastOp.key, lastOp.t)
                IN  /\ r.status = StatusUnauthorized
                    /\ r.status = lastOp.resp.status
                    /\ r.body = lastOp.resp.body

C20_Witness ==
    /\ lastOp.op = "RequireAuth"
    /\ lastOp.resp.validated /\ ~lastOp.resp.handlerRan
    /\ SignedUnder(lastOp.header.token, lastOp.key)
    /\ ExpiredAt(lastOp.header.token, lastOp.t)
    /\ \E tok \in issued :
          /\ ~SignedUnder(tok, lastOp.key)
          /\ ~ExpiredAt(tok, lastOp.t)
          /\ ~RequireAuth(lastOp.mw, Bearer(tok), lastOp.key, lastOp.t).handlerRan

\* C21: the claims a successful ValidateToken returns have ExpiresAt
\* strictly after IssuedAt, whatever positive duration the token was issued
\* with, and both are the values the service signed at issuance, not values
\* a caller wrote into the string.
C21_ExpiryAfterIssue ==
    (lastOp.op = "ValidateToken" /\ lastOp.err = nil) =>
        LET c == lastOp.claims[1]
        IN  /\ Len(lastOp.claims) = 1
            /\ c.ExpiresAt > c.IssuedAt
            /\ lastOp.tok.sig.key = lastOp.key
            /\ c.IssuedAt = lastOp.tok.sig.msg.iat
            /\ c.ExpiresAt = lastOp.tok.sig.msg.exp

\* A token living for less than two seconds validates while a copy with an
\* expiry written by its holder exists.
C21_Witness ==
    /\ lastOp.op = "ValidateToken" /\ lastOp.err = nil
    /\ lastOp.claims[1].ExpiresAt = lastOp.claims[1].IssuedAt + 1
    /\ \E tok \in issued : tok.raw = "jwt" /\ tok.claims.exp # tok.sig.msg.exp

\* C23: validity of a token is monotone in time.  Over every step (the
\* clock never goes back), a token signed under the service key that
\* ValidateToken rejects at or after its expiresAt is rejected after the
\* step too, and a string that is malformed or not signed under the service
\* key is rejected before and after the step.
C23_Monotone ==
    [][\A key \in ServiceKeys, tok \in Strings :
          /\ now' >= now
          /\ (/\ SignedUnder(tok, key)
              /\ ExpiredAt(tok, now)
              /\ ValidateToken(key, tok, now).err # nil)
             => ValidateToken(key, tok, now').err # nil
          /\ ~SignedUnder(tok, key)
             => /\ ValidateToken(key, tok, now).err # nil
                /\ ValidateToken(key, tok, now').err # nil]_vars

\* A token that was valid for a while is presented after its expiry and
\* rejected.
C23_Witness ==
    /\ lastOp.op = "ValidateToken"
    /\ lastOp.key \in Secrets
    /\ SignedUnder(lastOp.tok, lastOp.key)
    /\ lastOp.tok.claims.exp > lastOp.tok.claims.iat
    /\ ExpiredAt(lastOp.tok, lastOp.t)
    /\ lastOp.err # nil
    /\ \E tok \in issued : tok.raw = "jwt" /\ ~SignedUnder(tok, lastOp.key)

\* C24: RefreshToken does not invalidate its input.  When a refresh has
\* succeeded, its input still validates under the same key when the call
\* returns and up to the last instant before its own expiresAt; and every
\* ValidateToken call on a token signed under the service key, before the
\* token's expiresAt, succeeds and returns the claims of the token, whatever
\* was issued, validated or refreshed earlier.
C24_RefreshKeepsInput ==
    /\ (lastOp.op = "RefreshToken" /\ lastOp.err = nil) =>
          \A t \in {lastOp.done, NumericTime(lastOp.tok.claims.exp) - 1} :
             (t >= lastOp.done /\ ~ExpiredAt(lastOp.tok, t)) =>
                 ValidateToken(lastOp.key, lastOp.tok, t).err = nil
    /\ (/\ lastOp.op = "ValidateToken"
        /\ lastOp.key # ""
        /\ SignedUnder(lastOp.tok, lastOp.key)
        /\ ~ExpiredAt(lastOp.tok, lastOp.t)) =>
          lastOp.err = nil /\ lastOp.claims = <<TokenClaims(lastOp.tok.claims)>>

\* A token validates while a later token refreshed from it exists.
C24_Witness ==
    /\ lastOp.op = "ValidateToken"
    /\ lastOp.key \in Secrets
    /\ lastOp.err = nil
    /\ \E new \in issued :
          /\ new # lastOp.tok
          /\ SignedUnder(new, lastOp.key)
          /\ new.claims.iat > lastOp.tok.claims.iat
          /\ new.claims.exp = new.claims.iat + NewNumericDate(Day)
          /\ new.claims.user_id = lastOp.tok.claims.user_id

\* C28: a successful RefreshToken returns a token string different from
\* the one it was given, whenever it is called.
C28_RefreshDiffers ==
    (lastOp.op = "RefreshToken" /\ lastOp.err = nil) => lastOp.token # lastOp.tok

\* C25: a sweep removes exactly the registered entries whose lastSeen is
\* more than an hour before the sweep: an entry seen within the last hour
\* stays registered, no entry's tokens or lastSeen is changed by a sweep,
\* and only the swept registry changes; and every lookup of a rate-limit
\* check leaves the entry registered for the key with lastSeen = now,
\* before the bucket decides to allow or deny.
C25_SweepExact ==
    [][/\ \A g \in Limiters, k \in IPs :
             IF limiterMap[g][k] = NoEntry
             THEN Swept(g)[k] = NoEntry
             ELSE /\ Swept(g)[k] \in {NoEntry, limiterMap[g][k]}
                  /\ Swept(g)[k] = NoEntry
                        <=> now - entries[g][k][limiterMap[g][k]].lastSeen > Hour
       /\ \A l \in Limiters :
             Sweep(l) =>
                 /\ entries' = entries
                 /\ \A g \in Limiters, k \in IPs :
                        limiterMap'[g][k] # limiterMap[g][k] =>
                            /\ g = RegistryOf(l)
                            /\ limiterMap'[g][k] = NoEntry
                            /\ now - entries[g][k][limiterMap[g][k]].lastSeen > Hour
       /\ \A l \in Limiters, ip \in IPs :
             Lookup(l, ip) =>
                 LET g == RegistryOf(l)
                     k == KeyGenerator(l, ip)
                 IN  /\ limiterMap'[g][k] # NoEntry
                     /\ entries'[g][k][limiterMap'[g][k]].lastSeen = now]_vars

\* A sweep has removed one key's entry and kept, in the same registry, an
\* entry seen exactly an hour ago.
C25_Witness ==
    \E g \in Limiters, k1 \in IPs, k2 \in IPs :
        /\ limiterMap[g][k1] = NoEntry
        /\ Len(entries[g][k1]) > 0
        /\ limiterMap[g][k2] # NoEntry
        /\ now - entries[g][k2][limiterMap[g][k2]].lastSeen = Hour

\* C29: whether or not a sweep has run, a request whose key has a
\* registered entry with lastSeen more than an hour old at lookup time
\* replaces it under the lock: the registry then holds, for that key, one
\* entry, new, with tokens = capacity and lastSeen = now, the request holds
\* that entry and not the old one, and the burst admission holds on the
\* entries created this way; every lookup hands the request the entry
\* registered for its key, seen now.
C29_StaleReplaced ==
    [][/\ \A l \in Limiters, ip \in IPs :
             LET g == RegistryOf(l)
                 k == KeyGenerator(l, ip)
                 old == limiterMap[g][k]
                 new == limiterMap'[g][k]
             IN  Lookup(l, ip) =>
                     /\ new # NoEntry
                     /\ entries'[g][k][new].lastSeen = now
                     /\ \E rq \in BagToSet(inflight') :
                            /\ CopiesIn(rq, inflight') = CopiesIn(rq, inflight) + 1
                            /\ rq.entry = [reg |-> g, key |-> k, ver |-> new]
                     /\ (old # NoEntry /\ now - entries[g][k][old].lastSeen > Hour) =>
                            /\ new = Len(entries[g][k]) + 1
                            /\ new # old
                            /\ entries'[g][k][new].limiter.tokens
                                   = config[l].BurstSize * TokenScale
                            /\ entries'[g][k][old] = entries[g][k][old]
       /\ \A r \in Refs : Hist(r).origin = "stale" => BurstHolds(r)']_vars

\* An entry that replaced a stale one, never swept, has admitted its burst
\* and denied the next request of the same instant.
C29_Witness ==
    \E r \in Refs :
        /\ Hist(r).origin = "stale"
        /\ Registered(r)
        /\ Len(Log(r)) = Cap(r) + 1
        /\ Log(r)[Cap(r) + 1].t = Hist(r).born
        /\ ~Log(r)[Cap(r) + 1].ok
        /\ Log(r)[Cap(r)].ok
        /\ Hist(r).born - Entry([r EXCEPT !.ver = r.ver - 1]).lastSeen > Hour

\* C26: liveness of eviction.  While the ticker keeps running the sweep,
\* every registered entry that has been idle for more than an hour is
\* eventually no longer registered, and from some moment on the registry
\* holds only entries seen within the last hour.
C26_EvictionLive ==
    LET g == RegistryOf("default")
    IN  /\ \A k \in IPs, v \in 1..MaxRequests :
              (limiterMap[g][k] = v /\ now - entries[g][k][v].lastSeen > Hour)
                  ~> (limiterMap[g][k] # v)
        /\ <>[](\A k \in IPs :
                   limiterMap[g][k] # NoEntry =>
                       now - entries[g][k][limiterMap[g][k]].lastSeen <= Hour)

\* Every key the registry has seen was left without requests and has been
\* removed.
C26_Witness ==
    LET g == RegistryOf("default")
    IN  /\ inflight = EmptyBag
        /\ \A k \in IPs : Len(entries[g][k]) > 0 /\ limiterMap[g][k] = NoEntry
        /\ \A k \in IPs : now - entries[g][k][Len(entries[g][k])].lastSeen > Hour

\* C27: no call of the token service or of the application service ends
\* in a panic, and AuthService.GenerateToken with a nil user returns an
\* error and an empty token without calling the token service.
C27_NilUserError ==
    /\ lastOp.panic = NoPanic
    /\ (lastOp.op = "AuthService.GenerateToken" /\ lastOp.arg.user = <<>>) =>
          /\ lastOp.err # nil
          /\ lastOp.token = EmptyString
          /\ ~lastOp.called

\* C30: Login and Register return a token only after the user service has
\* returned a user.  When the user service fails the token service is not
\* called, the token is empty, the user is nil and the error is the user
\* service's error, unchanged; a returned token comes with the user the
\* user service returned.
C30_TokenAfterUser ==
    lastOp.op \in {"Login", "Register"} =>
        /\ lastOp.arg.err # nil =>
              /\ ~lastOp.called
              /\ lastOp.token = EmptyString
              /\ lastOp.user = <<>>
              /\ lastOp.err = lastOp.arg.err
        /\ lastOp.token # EmptyString =>
              /\ lastOp.arg.err = nil
              /\ lastOp.called
              /\ lastOp.user = lastOp.arg.user
              /\ lastOp.user # <<>>
              /\ lastOp.err = nil

\* A registration the user service refuses, by a service that could sign.
C30_Witness ==
    /\ lastOp.op = "Register"
    /\ lastOp.key \in Secrets
    /\ lastOp.arg.err = ErrUserExists
    /\ lastOp.err = ErrUserExists
    /\ issued = {}

\* C22: UpdatePost and DeletePost change the posts table only when the
\* calling userID is the AuthorID of the post, and then only that post's
\* row; a call by anyone else on a post the repository finds returns
\* ErrUnauthorized, leaves the table as it was and calls neither Update nor
\* Delete of the repository.
C22_OnlyAuthorModifies ==
    [][lastOp'.op \in {"UpdatePost", "DeletePost"} =>
          LET id == lastOp'.postID
              found == HasRow(posts, id) /\ lastOp'.err # ErrDatabase
          IN  /\ posts' # posts =>
                    /\ HasRow(posts, id)
                    /\ posts[id][1].AuthorID = lastOp'.userID
                    /\ lastOp'.err = nil
                    /\ Len(posts') = Len(posts)
                    /\ \A i \in 1..Len(posts) : i # id => posts'[i] = posts[i]
                    /\ HasRow(posts', id) => posts'[id][1].AuthorID = posts[id][1].AuthorID
              /\ (found /\ posts[id][1].AuthorID # lastOp'.userID) =>
                    /\ lastOp'.err = ErrUnauthorized
                    /\ posts' = posts
                    /\ lastOp'.repo = <<"GetByID">>
                    /\ lastOp'.post = <<>>]_vars

\* A post its author has updated, and someone else's attempt to delete it
\* refused.
C22_Witness ==
    /\ lastOp.op = "DeletePost"
    /\ lastOp.err = ErrUnauthorized
    /\ HasRow(posts, lastOp.postID)
    /\ posts[lastOp.postID][1].AuthorID # lastOp.userID
    /\ posts[lastOp.postID][1].Title.text = "Updated Title"
====
